---------------------------- MODULE Spec2Model ----------------------------
(***************************************************************************)
(* A model of the shechill-analysis pipeline:                              *)
(*   analysis/quantity_analysis.py      clean_item_names,                  *)
(*                                      create_quantity_pivot              *)
(*   analysis/visualization_reports.py  create_prophet_forecast,           *)
(*                                      create_grid_plots                  *)
(* Python lists are 0-based and TLA+ sequences 1-based: a Python index i   *)
(* is position i + 1 of the sequence, and values[k:] is                    *)
(* SubSeq(values, k + 1, Len(values)).                                     *)
(***************************************************************************)
EXTENDS Integers, Sequences, FiniteSets, Bags, TLC

VARIABLES
    \* create_prophet_forecast(dates, values, forecast_periods)
    dates,          \* argument: the "M/D" labels of one weekday series
    values,         \* argument: the quantities of that series
    trim_idx,       \* local trim_idx once the scan has run, else None
    fit_called,     \* whether model.fit(df_prophet) was reached
    ret,            \* the returned 4-tuple, as a record
    retrim,         \* the scan's index on the already-trimmed series, else None
    fpc             \* "call", then "returned", then "retrimmed"

fvars == <<dates, values, trim_idx, fit_called, ret, retrim, fpc>>

VARIABLES
    \* create_grid_plots(df, weekday_columns)
    df_items,        \* the 'Item' column of df, one entry per row
    weekday_columns, \* weekday name -> the column labels of that weekday
    idx,             \* the row of the outer loop (0-based)
    wi,              \* i of the inner loop, the weekday (0-based); 6 once it is over
    panel,           \* what the last panel drawn shows, else None
    panels_done,     \* the (idx, weekday) pairs whose panel was completed, in order
    saved,           \* the file paths given to plt.savefig, in order
    gpc              \* "loop", "done" (returned) or "raised" (left by an exception)

gvars == <<df_items, weekday_columns, idx, wi, panel, panels_done, saved, gpc>>

VARIABLES
    \* quantity_analysis.main
    csv,            \* the rows of ../data/transaction-summary.csv, as a bag
    daily_qty,      \* create_quantity_pivot's daily_qty: (Date, Item) -> Qty
    qty_pivot,      \* the matrix create_quantity_pivot returns
    stats,          \* what generate_basic_stats returned, None before
    summary,        \* the figures of the printed ANALYSIS SUMMARY, None before
    qpc             \* "input" while the file is written, then "done"

qvars == <<csv, daily_qty, qty_pivot, stats, summary, qpc>>

VARIABLES
    \* clean_item_names(df)
    names_df,       \* the argument df, as a bag of rows
    names_cleaned,  \* the returned df_cleaned
    npc             \* "call" before the call, "returned" after it

nvars == <<names_df, names_cleaned, npc>>

VARIABLES
    \* run_analysis.main
    run_mode,         \* "default", "quantity_only" or "viz_only" (args)
    transaction_file, \* the Qty and Net Sales fields of the csv rows, as text
    stage_log,        \* the subprocesses run so far: (script, returncode)
    success,          \* local success
    run_status,       \* the exit status given to sys.exit, None before
    rpc               \* "main", "viz" (line 61), "report" (line 64), "exited"

rvars == <<run_mode, transaction_file, stage_log, success, run_status, rpc>>

VARIABLES
    \* web/app.py and run_web.py beside the batch that writes the artifacts
    plot_dir,       \* ../reports/grid_plots: None when absent, else entry name ->
                    \* "complete", "partial" (being written) or "dir"
    batch_todo,     \* the items whose figure the batch has still to save
    writing,        \* the file plt.savefig is writing, else None
    bpc,            \* the batch: "idle", "running" or "done"
    web_up,         \* whether run_web.main has started the viewer
    request,        \* the last request the viewer handled, else None
    response        \* its response, else None

wvars == <<plot_dir, batch_todo, writing, bpc, web_up, request, response>>

VARIABLES
    \* SquareSalesFetcher.fetch_sales_data and main of square_sales_fetcher.py
    api_pages,      \* the pages the Orders API holds for the range, in order
    fail_at,        \* the page whose search call raises, 0 for none
    cursor,         \* local cursor: None, else the number of the next page
    page,           \* local page
    sales_data,     \* (item_name, date_key) -> quantity
    total_orders,   \* local total_orders
    report,         \* what main reports after the fetch, None before
    spc             \* "loop" inside fetch_sales_data, "returned", "exported"

svars == <<api_pages, fail_at, cursor, page, sales_data, total_orders, report, spc>>

\* The variables of the runner, of the viewer and of the sales fetcher.
lvars == <<rvars, wvars, svars>>

vars == <<fvars, gvars, qvars, nvars, lvars>>

(***************************************************************************)
(* Bounds of the model.                                                    *)
(***************************************************************************)
MaxLen == 11            \* longest generated weekday series
MaxRows == 2            \* most rows of the matrix given to create_grid_plots
NCols == 10             \* columns of a weekday that has columns
MaxEmptyWeekdays == 1   \* most weekdays without any column
MaxAggRows == 2         \* most transactions of a file, for the aggregation
MaxPivotRows == 3       \* most transactions of a file, for the pivot

(***************************************************************************)
(* Program constants.                                                      *)
(***************************************************************************)
MinRawObs == 10         \* len(values) < 10
ZeroRun == 4            \* consecutive_zeros >= 4
MinTrimmedObs == 5      \* len(trimmed_values) < 5
MinParsedObs == 5       \* len(df_prophet) < 5
ReferenceYear == 2024   \* '2024/' + ...
StrptimeYear == 1900    \* the year strptime gives a date parsed with '%m/%d'

\* An optional value: None is the empty tuple and a present value x is <<x>>.
None == <<>>
Some(x) == <<x>>
NaT == <<0, 0, 0>>

(***************************************************************************)
(* Calendar.                                                               *)
(***************************************************************************)
IsLeap(y) == (y % 4 = 0 /\ y % 100 # 0) \/ y % 400 = 0

DaysInMonth(y, m) ==
    IF m \in {4, 6, 9, 11} THEN 30
    ELSE IF m = 2 THEN (IF IsLeap(y) THEN 29 ELSE 28)
    ELSE 31

ValidDate(y, m, d) == m \in 1..12 /\ d >= 1 /\ d <= DaysInMonth(y, m)

NextDay(date) ==
    IF date[3] < DaysInMonth(date[1], date[2]) THEN <<date[1], date[2], date[3] + 1>>
    ELSE IF date[2] < 12 THEN <<date[1], date[2] + 1, 1>>
    ELSE <<date[1] + 1, 1, 1>>

RECURSIVE AddDays(_, _)
AddDays(date, n) == IF n = 0 THEN date ELSE AddDays(NextDay(date), n - 1)

\* The "M/D" labels of the first n weekly dates from `start` on.
RECURSIVE WeeklyLabels(_, _)
WeeklyLabels(start, n) ==
    IF n = 0 THEN <<>>
    ELSE << <<start[2], start[3]>> >> \o WeeklyLabels(AddDays(start, 7), n - 1)

\* date.toordinal(): the days from 1 January of year 1, which is day 1.
DaysBeforeMonthTable == <<0, 31, 59, 90, 120, 151, 181, 212, 243, 273, 304, 334>>

DaysBeforeMonth(y, m) == DaysBeforeMonthTable[m] + (IF m > 2 /\ IsLeap(y) THEN 1 ELSE 0)

ToOrdinal(date) ==
    LET y == date[1] - 1
    IN  365 * y + (y \div 4) - (y \div 100) + (y \div 400)
        + DaysBeforeMonth(date[1], date[2]) + date[3]

DayNames == <<"Monday", "Tuesday", "Wednesday", "Thursday", "Friday", "Saturday", "Sunday">>

\* A missing value of a text column (an empty field of the file).
NaN == "NaN"

\* Timestamp.day_name(); NaN for NaT.
day_name(date) == IF date = NaT THEN NaN ELSE DayNames[((ToOrdinal(date) + 6) % 7) + 1]

(***************************************************************************)
(* Text.  A name is a string; its k-th character is SubSeq(s, k, k).       *)
(***************************************************************************)
UpperLetters == "ABCDEFGHIJKLMNOPQRSTUVWXYZ"
LowerLetters == "abcdefghijklmnopqrstuvwxyz"

LowerTable ==
    [c \in {SubSeq(UpperLetters, k, k) : k \in 1..26} |->
        LET k == CHOOSE k \in 1..26 : SubSeq(UpperLetters, k, k) = c
        IN  SubSeq(LowerLetters, k, k)]

LowerChar(c) == IF c \in DOMAIN LowerTable THEN LowerTable[c] ELSE c

RECURSIVE Lower(_)
Lower(str) ==
    IF Len(str) = 0 THEN ""
    ELSE LowerChar(SubSeq(str, 1, 1)) \o Lower(SubSeq(str, 2, Len(str)))

\* sub occurs in str.
Contains(str, sub) ==
    \E k \in 1..(Len(str) - Len(sub) + 1) : SubSeq(str, k, k + Len(sub) - 1) = sub

(***************************************************************************)
(* clean_item_names.                                                       *)
(***************************************************************************)
\* item_mappings, in the order of the dict: target name, names to merge.
item_mappings == <<
    <<"Berry Tart", <<"Berry Tart", "Berry Tart ">> >>,
    <<"Chocolate Tart", <<"Chocolate Tart", "Chocolate Tart ">> >>,
    <<"Bread Pudding Croissant", <<"Bread Pudding Croissant">> >>,
    <<"Chocolate Banana Bread (Gluten Free)", <<"Chocolate Banana Bread (Gluten Free)">> >>,
    <<"Crispy Egg Tart", <<"Crispy Egg Tart", "Egg Tart">> >>,
    <<"Dubai Chocolate Croissant",
      <<"Dubai Chocolate Croissant", "Dubaï Chocolate Croissant",
        "Dubai Chocolate Croissant (Fri/Sat/Sun)">> >>,
    <<"Mini Black Sesame Croissant",
      <<"Mini Black Sesame Croissant", "Mini Black SésameCroissant",
        "Mini Black Sesame Croissant (Fri/Sat/Sun)">> >>,
    <<"Croque Monsieur", <<"CroqueMonsieur", "Croque Monsieur">> >>,
    <<"Avocado Egg Croissant Sandwich",
      <<"Avocado Egg Croissant Sandwich", "Avocado Egg Croissant Sandwich (Fri/Sat/Sun)",
        "Avocado Egg Croissant Sandwich - Weekend Only">> >>,
    <<"Black Sesame Croissant",
      <<"Black Sesame Croissant", "Black Sesame Croissant (Fri/Sat/Sun)",
        "Black Sesame Croissant Toast - Weekend Only">> >>,
    <<"Brie Prosciutto Croissant Sandwich",
      <<"Brie Prosciutto Croissant Sandwich", "Brie Prosciutto Croissant Sandwich (Fri/Sat/Sun)",
        "Brie Prosciutto Croissant Sandwich - Weekend Only">> >>,
    <<"Red Bow Tie Croissant",
      <<"Red Bow Tie Croissant", "Red Bow Tie Croissant (Fri/Sat/Sun)",
        "Red Bow Tie Croissant - Weekend Only">> >>,
    <<"Lemon Tart (Large)", <<"Lemon Tart (L)", "Lemon Tart (Large)">> >>,
    <<"Raspberry Tart (Small)", <<"Raspberry Tart (Small)", "Raspberry Tart(S)">> >> >>

\* reverse_mapping after the first n entries of item_mappings: a later entry
\* overwrites an earlier one for the same source name.
RECURSIVE ReverseMappingUpTo(_)
ReverseMappingUpTo(n) ==
    IF n = 0 THEN <<>>
    ELSE LET before == ReverseMappingUpTo(n - 1)
             target == item_mappings[n][1]
             sources == item_mappings[n][2]
             names == {sources[k] : k \in 1..Len(sources)}
         IN  [name \in (DOMAIN before) \cup names |->
                 IF name \in names THEN target ELSE before[name]]

reverse_mapping == ReverseMappingUpTo(Len(item_mappings))

\* The lookup done on the name without its trailing blanks.
RECURSIVE RStrip(_)
RStrip(str) ==
    IF Len(str) > 0 /\ SubSeq(str, Len(str), Len(str)) = " "
    THEN RStrip(SubSeq(str, 1, Len(str) - 1)) ELSE str

CleanItemNameStripped(name) ==
    IF RStrip(name) \in DOMAIN reverse_mapping THEN reverse_mapping[RStrip(name)] ELSE name

\* The lookup without the 'Egg Tart' variants.
CleanItemNameNoEggTart(name) ==
    IF name \in (DOMAIN reverse_mapping) \ {"Egg Tart"} THEN reverse_mapping[name] ELSE name

\* df['Item'].map(reverse_mapping).fillna(df['Item']) on one name.
CleanItemName(name) ==
    IF name \in DOMAIN reverse_mapping THEN reverse_mapping[name] ELSE name

(***************************************************************************)
(* Bags of rows.  The order of the rows of a frame does not enter any      *)
(* result of create_quantity_pivot (groupby and pivot_table sort their     *)
(* keys), so a frame is the bag of its rows.                               *)
(***************************************************************************)
RECURSIVE SumOver(_, _)
SumOver(S, bag) ==
    IF S = {} THEN 0
    ELSE LET x == CHOOSE x \in S : TRUE IN bag[x] + SumOver(S \ {x}, bag)

\* The rows of a frame whose key is in keep.
FilterRows(frame, keep) == [row \in (DOMAIN frame) \cap keep |-> frame[row]]

\* sum of the Qty column over the rows of a set.
RECURSIVE SumQty(_, _)
SumQty(S, frame) ==
    IF S = {} THEN 0
    ELSE LET x == CHOOSE x \in S : TRUE IN frame[x] * x.Qty + SumQty(S \ {x}, frame)

(***************************************************************************)
(* load_transaction_data: Day_of_Week is computed from Date.               *)
(***************************************************************************)
WithDayOfWeek(row) ==
    [Date |-> row.Date, Item |-> row.Item, Category |-> row.Category, Qty |-> row.Qty,
     Day_of_Week |-> day_name(row.Date)]

load_transaction_data(file) ==
    LET loaded == {WithDayOfWeek(row) : row \in DOMAIN file}
    IN  [row \in loaded |->
            file[[Date |-> row.Date, Item |-> row.Item, Category |-> row.Category,
                  Qty |-> row.Qty]]]

(***************************************************************************)
(* create_quantity_pivot: filtering and grouping.                          *)
(***************************************************************************)
target_categories == {"Croissant", "Bread", "Pastries", "Drink"}

SeasonalPatterns == {"4th of July", "4th Of July", "Easter Special"}

\* Some pattern occurs in str, the case of the letters of the patterns ignored.
ContainsPattern(str, patterns) == \E pat \in patterns : Contains(str, Lower(pat))

\* str.contains('4th of July|4th Of July|Easter Special', case=False, na=False)
IsSeasonal(name) ==
    IF name = NaN THEN FALSE ELSE ContainsPattern(Lower(name), SeasonalPatterns)

WithItem(row, item) ==
    [Date |-> row.Date, Item |-> item, Category |-> row.Category, Qty |-> row.Qty,
     Day_of_Week |-> row.Day_of_Week]

\* clean_item_names(df): the frame with every Item replaced.
clean_item_names(frame) ==
    LET cleaned == {WithItem(row, CleanItemName(row.Item)) : row \in DOMAIN frame}
    IN  [row \in cleaned |->
            SumOver({old \in DOMAIN frame : WithItem(old, CleanItemName(old.Item)) = row},
                    frame)]

\* df_filtered of create_quantity_pivot, before the grouping.
FilteredFrame(frame) ==
    LET by_category == FilterRows(frame, {row \in DOMAIN frame :
                                             row.Category \in target_categories})
        no_monday == FilterRows(by_category, {row \in DOMAIN by_category :
                                                 row.Day_of_Week # "Monday"})
        cleaned == clean_item_names(no_monday)
    IN  FilterRows(cleaned, {row \in DOMAIN cleaned : ~IsSeasonal(row.Item)})

\* groupby(['Date', 'Item']).agg({'Qty': 'sum'}): a group per (Date, Item) of
\* the rows that have both; a row with a missing Date or Item is in no group.
GroupByDateItem(frame) ==
    LET keyed == {row \in DOMAIN frame : row.Date # NaT /\ row.Item # NaN}
        keys == {<<row.Date, row.Item>> : row \in keyed}
    IN  [key \in keys |->
            SumQty({row \in keyed : <<row.Date, row.Item>> = key}, frame)]

(***************************************************************************)
(* create_quantity_pivot: the pivot and its columns.                       *)
(***************************************************************************)
\* The second components of a set of (key, date) pairs, by ascending key.
RECURSIVE SortByKey(_)
SortByKey(pairs) ==
    IF pairs = {} THEN <<>>
    ELSE LET first == CHOOSE p \in pairs : \A q \in pairs : p[1] <= q[1]
         IN  <<first[2]>> \o SortByKey(pairs \ {first})

\* The dates of a set in ascending order.
SortDates(S) == SortByKey({<<ToOrdinal(d), d>> : d \in S})

\* f"{col.month}/{col.day} - {col.day_name()}", as (month, day, day name):
\* the label does not hold the year.
FormattedDate(col) == <<col[2], col[3], day_name(col)>>

\* The skipped column: month 1, day 14, of any year.
IsSkippedDate(col) == col[2] = 1 /\ col[3] = 14

weekday_order == [name \in {"Tuesday", "Wednesday", "Thursday", "Friday", "Saturday", "Sunday"} |->
                    CHOOSE k \in 0..5 :
                        name = <<"Tuesday", "Wednesday", "Thursday", "Friday",
                                 "Saturday", "Sunday">>[k + 1]]

\* The sort key of a date column: (weekday_order[x[2]], x[0]).
SortKey(d) == <<weekday_order[day_name(d)], ToOrdinal(d)>>

\* date_columns.sort(key=lambda x: (weekday_order[x[2]], x[0])) on the dates kept.
SortByWeekdayThenDate(S) ==
    SortByKey({<<SortKey(d)[1] * 10000000 + SortKey(d)[2], d>> : d \in S})

RECURSIVE Flatten(_)
Flatten(seqs) == IF seqs = <<>> THEN <<>> ELSE Head(seqs) \o Flatten(Tail(seqs))

\* The positions of a sequence, in order, whose entry satisfies pick.
RECURSIVE PositionsOf(_, _, _)
PositionsOf(seq, x, from) ==
    IF from > Len(seq) THEN <<>>
    ELSE (IF seq[from] = x THEN <<from>> ELSE <<>>) \o PositionsOf(seq, x, from + 1)

\* qty_pivot[new_columns] on the renamed columns: for every label of
\* new_columns, every column that bears it.
SelectColumns(renamed, new_columns) ==
    Flatten([k \in 1..Len(new_columns) |-> PositionsOf(renamed, new_columns[k], 1)])

\* The matrix with the headers of `selected` over the cells of the pivot's
\* columns counted from the last one.
MatrixOfUnselected(grouped, items, pivot_dates, renamed, selected) ==
    [columns |-> [k \in 1..Len(selected) |-> renamed[selected[k]]],
     rows    |-> [item \in items |->
                     [k \in 1..Len(selected) |->
                         LET date == pivot_dates[Len(pivot_dates) + 1 - selected[k]]
                         IN  IF <<date, item>> \in DOMAIN grouped
                             THEN grouped[<<date, item>>] ELSE 0]]]

\* The matrix with the columns `selected` of the pivot.
MatrixOf(grouped, items, pivot_dates, renamed, selected) ==
    [columns |-> [k \in 1..Len(selected) |-> renamed[selected[k]]],
     rows    |-> [item \in items |->
                     [k \in 1..Len(selected) |->
                         IF <<pivot_dates[selected[k]], item>> \in DOMAIN grouped
                         THEN grouped[<<pivot_dates[selected[k]], item>>] ELSE 0]]]

\* The date columns renamed to their labels; a skipped one keeps its Timestamp.
RenamedColumns(pivot_dates) ==
    [k \in 1..Len(pivot_dates) |->
        IF IsSkippedDate(pivot_dates[k]) THEN <<"Timestamp", pivot_dates[k]>>
        ELSE FormattedDate(pivot_dates[k])]

\* new_columns without 'Item': the labels of the dates kept, sorted.
NewColumns(date_columns) ==
    [k \in 1..Len(date_columns) |-> FormattedDate(date_columns[k])]

PivotColumns(grouped, items, pivot_dates, renamed, new_columns) ==
    MatrixOf(grouped, items, pivot_dates, renamed, SelectColumns(renamed, new_columns))

\* From daily_qty to the returned matrix: pivot_table with fill_value=0, one
\* row per item and one column per date in ascending order, then the columns
\* renamed, sorted and selected.
PivotOf(grouped) ==
    LET pivot_dates == SortDates({key[1] : key \in DOMAIN grouped})
        kept == {key[1] : key \in {key \in DOMAIN grouped : ~IsSkippedDate(key[1])}}
    IN  PivotColumns(grouped, {key[2] : key \in DOMAIN grouped}, pivot_dates,
                     RenamedColumns(pivot_dates),
                     NewColumns(SortByWeekdayThenDate(kept)))

\* A Monday among the date columns is no key of weekday_order (KeyError).
PivotRaises(grouped) ==
    \E key \in DOMAIN grouped :
        ~IsSkippedDate(key[1]) /\ day_name(key[1]) \notin DOMAIN weekday_order

PivotResult(grouped) ==
    [daily_qty |-> grouped,
     raised    |-> PivotRaises(grouped),
     qty_pivot |-> IF PivotRaises(grouped) THEN [columns |-> <<>>, rows |-> <<>>]
                   ELSE PivotOf(grouped)]

\* create_quantity_pivot(df): daily_qty and the returned qty_pivot.
create_quantity_pivot(frame) == PivotResult(GroupByDateItem(FilteredFrame(frame)))

(***************************************************************************)
(* generate_basic_stats and the summary of main.                           *)
(***************************************************************************)
\* Series.nunique(): the distinct values without NaN.
NUnique(column) == Cardinality(column \ {NaN})

\* (df['Date'].min(), df['Date'].max()): NaT is skipped, and is the result
\* when the column holds no date.
DateRange(frame) ==
    LET present == {row.Date : row \in DOMAIN frame} \ {NaT}
    IN  IF present = {} THEN <<NaT, NaT>>
        ELSE <<CHOOSE d \in present : \A e \in present : ToOrdinal(d) <= ToOrdinal(e),
               CHOOSE d \in present : \A e \in present : ToOrdinal(e) <= ToOrdinal(d)>>

\* generate_basic_stats(df): the category and Monday filters only, on the
\* frame as loaded.
generate_basic_stats(frame) ==
    LET by_category == FilterRows(frame, {row \in DOMAIN frame :
                                             row.Category \in target_categories})
        df_filtered == FilterRows(by_category, {row \in DOMAIN by_category :
                                                   row.Day_of_Week # "Monday"})
    IN  [total_qty         |-> SumQty(DOMAIN df_filtered, df_filtered),
         unique_items      |-> NUnique({row.Item : row \in DOMAIN df_filtered}),
         unique_categories |-> NUnique({row.Category : row \in DOMAIN df_filtered}),
         date_range        |-> DateRange(frame)]

\* The figures main prints if the dates of the 'Period' line can be formatted.
AnalysisSummary(st) ==
    IF st.date_range[1] = NaT THEN None
    ELSE Some([total_quantity |-> st.total_qty,
               items_analyzed |-> st.unique_items,
               categories     |-> st.unique_categories])

(***************************************************************************)
(* create_prophet_forecast: the trim scan.                                 *)
(***************************************************************************)
RECURSIVE ScanFrom(_, _, _, _)
ScanFrom(vals, i, consecutive_zeros, trim) ==
    IF i >= Len(vals) THEN trim
    ELSE IF vals[i + 1] = 0
         THEN ScanFrom(vals, i + 1, consecutive_zeros + 1, trim)
         ELSE ScanFrom(vals, i + 1, 0,
                       IF consecutive_zeros >= ZeroRun THEN i ELSE trim)

\* The scan with a run of more than 4 zeros required (> for >=).
RECURSIVE ScanFromStrict(_, _, _, _)
ScanFromStrict(vals, i, consecutive_zeros, trim) ==
    IF i >= Len(vals) THEN trim
    ELSE IF vals[i + 1] = 0
         THEN ScanFromStrict(vals, i + 1, consecutive_zeros + 1, trim)
         ELSE ScanFromStrict(vals, i + 1, 0,
                             IF consecutive_zeros > ZeroRun THEN i ELSE trim)

TrimScanStrict(vals) == ScanFromStrict(vals, 0, 0, 0)

\* The scan keeping the first recorded index instead of the last.
RECURSIVE ScanFromFirst(_, _, _, _)
ScanFromFirst(vals, i, consecutive_zeros, trim) ==
    IF i >= Len(vals) THEN trim
    ELSE IF vals[i + 1] = 0
         THEN ScanFromFirst(vals, i + 1, consecutive_zeros + 1, trim)
         ELSE ScanFromFirst(vals, i + 1, 0,
                            IF consecutive_zeros >= ZeroRun /\ trim = 0 THEN i ELSE trim)

TrimScanFirst(vals) == ScanFromFirst(vals, 0, 0, 0)

\* The scan that keeps the index at which the run of zeros began.
RECURSIVE ScanFromRunStart(_, _, _, _)
ScanFromRunStart(vals, i, consecutive_zeros, trim) ==
    IF i >= Len(vals) THEN trim
    ELSE IF vals[i + 1] = 0
         THEN ScanFromRunStart(vals, i + 1, consecutive_zeros + 1, trim)
         ELSE ScanFromRunStart(vals, i + 1, 0,
                               IF consecutive_zeros >= ZeroRun THEN i - consecutive_zeros
                               ELSE trim)

TrimScanRunStart(vals) == ScanFromRunStart(vals, 0, 0, 0)

TrimScan(vals) == ScanFrom(vals, 0, 0, 0)

\* The slice taken one entry late: lst[k + 1:].
SliceAfter(lst, k) == SubSeq(lst, k + 2, Len(lst))

\* lst[k:]
SliceFrom(lst, k) == SubSeq(lst, k + 1, Len(lst))

RECURSIVE SumSeq(_)
SumSeq(s) == IF s = <<>> THEN 0 ELSE Head(s) + SumSeq(Tail(s))

(***************************************************************************)
(* create_prophet_forecast: building df_prophet.                           *)
(* pd.to_datetime(label, format='%m/%d', errors='coerce') parses a label   *)
(* as a date of the year 1900 and gives NaT when there is no such date;    *)
(* the year is then replaced by 2024 and the rows with NaT are dropped.    *)
(***************************************************************************)
ParseMonthDay(md) ==
    IF ValidDate(StrptimeYear, md[1], md[2])
    THEN <<StrptimeYear, md[1], md[2]>> ELSE NaT

WithReferenceYear(ts) ==
    IF ts = NaT THEN NaT
    ELSE IF ValidDate(ReferenceYear, ts[2], ts[3])
         THEN <<ReferenceYear, ts[2], ts[3]>> ELSE NaT

RECURSIVE DropNa(_)
DropNa(rows) ==
    IF rows = <<>> THEN <<>>
    ELSE IF Head(rows).ds = NaT THEN DropNa(Tail(rows))
         ELSE <<Head(rows)>> \o DropNa(Tail(rows))

ProphetFrame(trimmed_dates, trimmed_values) ==
    DropNa([k \in 1..Len(trimmed_values) |->
              [ds |-> WithReferenceYear(ParseMonthDay(trimmed_dates[k])),
               y  |-> trimmed_values[k]]])

\* The rows of forecast = model.predict(model.make_future_dataframe(periods)):
\* one per history date and `periods` future ones, named by their offset from
\* the last history date (<= 0 in sample, 1..periods ahead).  The estimates
\* themselves are the forecasting library's.
ForecastRows(n_history, periods) ==
    [k \in 1..(n_history + periods) |-> k - n_history]

NoneTuple == [forecast |-> None, df_prophet |-> None, model |-> None, trim_idx |-> None]

(***************************************************************************)
(* create_prophet_forecast(dates, values, forecast_periods).  `outcome` is *)
(* what the forecasting library does if it is called: "ok", or "raises"    *)
(* (in fit or in predict); an exception of either call is caught by the    *)
(* one except clause.  The result holds the returned tuple, the local      *)
(* trim_idx (None before the scan) and whether model.fit was called.       *)
(***************************************************************************)
\* The first guard without its test of the sum.
TooFewLengthOnly(vals) == Len(vals) < MinRawObs

\* if len(values) < 10 or sum(values) == 0
TooFew(vals) == Len(vals) < MinRawObs \/ SumSeq(vals) = 0

ProphetForecast(ds, vals, forecast_periods, outcome) ==
    IF TooFew(vals)
    THEN [ret |-> NoneTuple, trim_idx |-> None, fit_called |-> FALSE]
    ELSE LET trim == TrimScan(vals)
             trimmed_dates == SliceFrom(ds, trim)
             trimmed_values == SliceFrom(vals, trim)
             df_prophet == ProphetFrame(trimmed_dates, trimmed_values)
         IN  IF Len(trimmed_values) < MinTrimmedObs
             THEN [ret |-> NoneTuple, trim_idx |-> Some(trim), fit_called |-> FALSE]
             ELSE IF Len(df_prophet) < MinParsedObs
             THEN [ret |-> NoneTuple, trim_idx |-> Some(trim), fit_called |-> FALSE]
             ELSE IF outcome = "ok"
             THEN [ret |-> [forecast   |-> Some(ForecastRows(Len(df_prophet), forecast_periods)),
                            df_prophet |-> Some(df_prophet),
                            model      |-> Some("Prophet"),
                            trim_idx   |-> Some(trim)],
                   trim_idx |-> Some(trim), fit_called |-> TRUE]
             ELSE [ret |-> NoneTuple, trim_idx |-> Some(trim), fit_called |-> TRUE]

ProphetOutcomes == {"ok", "raises"}

DefaultForecastPeriods == 7

(***************************************************************************)
(* Inputs of create_prophet_forecast: every series of zeros and ones up to *)
(* MaxLen observations, and the series of the trimmer example; the labels  *)
(* are those of consecutive weeks.                                         *)
(***************************************************************************)
ExampleSeries == <<0, 0, 0, 0, 0, 3, 4, 0, 0, 0, 0, 2, 5, 6>>

SeriesInputs == UNION {[1..n -> {0, 1}] : n \in 0..MaxLen} \cup {ExampleSeries}

\* Thursday 4 January 2024 (29 February 2024 is the ninth Thursday from it),
\* Tuesday 6 August 2024, and Tuesday 5 November 2024 (7 January 2025 is the
\* ninth Tuesday from it).
SeriesStarts == {<<2024, 1, 4>>, <<2024, 8, 6>>, <<2024, 11, 5>>}

\* run_analysis.main has not been started.
RunIdle ==
    /\ run_mode = "default"
    /\ transaction_file = <<>>
    /\ stage_log = <<>>
    /\ success = TRUE
    /\ run_status = None
    /\ rpc = "idle"

\* Neither the batch of the viewer's artifacts nor the viewer has been started.
WebIdle ==
    /\ plot_dir = None
    /\ batch_todo = <<>>
    /\ writing = None
    /\ bpc = "idle"
    /\ web_up = FALSE
    /\ request = None
    /\ response = None

\* fetch_sales_data has not been called.
SquareIdle ==
    /\ api_pages = <<>>
    /\ fail_at = 0
    /\ cursor = None
    /\ page = 1
    /\ sales_data = <<>>
    /\ total_orders = 0
    /\ report = None
    /\ spc = "idle"

\* Neither the runner, nor the viewer, nor the sales fetcher has been started.
LaterIdle == RunIdle /\ WebIdle /\ SquareIdle

\* create_grid_plots has not been called.
GridIdle ==
    /\ df_items = <<>>
    /\ weekday_columns = <<>>
    /\ idx = 0
    /\ wi = 0
    /\ panel = None
    /\ panels_done = <<>>
    /\ saved = <<>>
    /\ gpc = "idle"

\* clean_item_names has not been called on its own.
NamesIdle ==
    /\ LaterIdle
    /\ names_df = EmptyBag
    /\ names_cleaned = EmptyBag
    /\ npc = "idle"

\* quantity_analysis.main has not been called, on an empty file.
QuantityIdle ==
    /\ NamesIdle
    /\ csv = EmptyBag
    /\ daily_qty = <<>>
    /\ qty_pivot = [columns |-> <<>>, rows |-> <<>>]
    /\ stats = None /\ summary = None
    /\ qpc = "idle"

InitForecast ==
    /\ GridIdle
    /\ QuantityIdle
    /\ values \in SeriesInputs
    /\ \E start \in SeriesStarts : dates = WeeklyLabels(start, Len(values))
    /\ trim_idx = None
    /\ fit_called = FALSE
    /\ ret = NoneTuple
    /\ retrim = None
    /\ fpc = "call"

CreateProphetForecast ==
    /\ fpc = "call"
    /\ \E outcome \in ProphetOutcomes :
         LET r == ProphetForecast(dates, values, DefaultForecastPeriods, outcome)
         IN  /\ ret' = r.ret
             /\ trim_idx' = r.trim_idx
             /\ fit_called' = r.fit_called
    /\ fpc' = "returned"
    /\ UNCHANGED <<dates, values, retrim>>
    /\ UNCHANGED <<gvars, qvars, nvars, lvars>>

\* The trim scan applied once more, to the series the first scan trimmed.
ReapplyTrimmer ==
    /\ fpc = "returned"
    /\ trim_idx # None
    /\ retrim' = Some(TrimScan(SliceFrom(values, trim_idx[1])))
    /\ fpc' = "retrimmed"
    /\ UNCHANGED <<dates, values, trim_idx, fit_called, ret>>
    /\ UNCHANGED <<gvars, qvars, nvars, lvars>>

NextForecast == CreateProphetForecast \/ ReapplyTrimmer

SpecForecast == InitForecast /\ [][NextForecast]_vars

(***************************************************************************)
(* create_grid_plots.                                                      *)
(***************************************************************************)
weekdays == <<"Tuesday", "Wednesday", "Thursday", "Friday", "Saturday", "Sunday">>

ForecastPeriods == 4    \* forecast_periods=4, tail(4), F+1..F+4

RECURSIVE GCD(_, _)
GCD(a, b) == IF b = 0 THEN a ELSE GCD(b, a % b)

\* np.mean of a non-empty list of integers, as a fraction in lowest terms.
Mean(data) ==
    LET s == SumSeq(data)
        g == GCD(IF s < 0 THEN -s ELSE s, Len(data))
    IN  <<s \div g, Len(data) \div g>>

\* np.max of a non-empty list.
Max(data) == CHOOSE m \in {data[k] : k \in 1..Len(data)} :
                 \A k \in 1..Len(data) : data[k] <= m

\* frame.tail(n)
TailRows(rows, n) == SubSeq(rows, (IF Len(rows) > n THEN Len(rows) - n ELSE 0) + 1, Len(rows))

\* The mean and max over the post-introduction data whatever the forecast.
PanelStatsAlwaysTrimmed(weekday_data, r) ==
    LET t == TrimScan(weekday_data)
    IN  [avg_qty |-> Mean(SliceFrom(weekday_data, t)),
         max_qty |-> Max(SliceFrom(weekday_data, t))]

\* The statistics of a panel: avg_qty and max_qty, from the returned tuple r.
PanelStats(weekday_data, r) ==
    IF r.forecast # None /\ r.trim_idx # None
    THEN IF r.trim_idx[1] > 0
         THEN LET post_intro_data == SliceFrom(weekday_data, r.trim_idx[1])
              IN  [avg_qty |-> IF Len(post_intro_data) > 0 THEN Mean(post_intro_data)
                                                          ELSE Mean(weekday_data),
                   max_qty |-> IF Len(post_intro_data) > 0 THEN Max(post_intro_data)
                                                          ELSE Max(weekday_data)]
         ELSE [avg_qty |-> Mean(weekday_data), max_qty |-> Max(weekday_data)]
    ELSE [avg_qty |-> Mean(weekday_data), max_qty |-> Max(weekday_data)]

\* One panel: what is plotted and written on it.  date_labels are the "M/D"
\* parts of the column labels and r the tuple create_prophet_forecast returned.
DrawPanel(weekday, weekday_data, date_labels, r) ==
    LET with_forecast == r.forecast # None /\ r.trim_idx # None
        panel_stats == PanelStats(weekday_data, r)
    IN  [title        |-> weekday,
         historical   |-> weekday_data,
         forecast_x   |-> IF with_forecast
                          THEN [k \in 1..ForecastPeriods |-> Len(weekday_data) + k - 1]
                          ELSE <<>>,
         forecast_y   |-> IF with_forecast THEN TailRows(r.forecast[1], ForecastPeriods)
                          ELSE <<>>,
         interval     |-> with_forecast,
         xticklabels  |-> IF with_forecast
                          THEN date_labels \o [k \in 1..ForecastPeriods |-> <<"F+", k>>]
                          ELSE date_labels,
         avg_qty      |-> panel_stats.avg_qty,
         max_qty      |-> panel_stats.max_qty,
         next_forecast |-> IF r.forecast # None THEN TailRows(r.forecast[1], 1) ELSE <<>>,
         trim_idx     |-> r.trim_idx]

\* The plotting of a panel raises when np.max is given an empty list:
\* an empty weekday series has no forecast, and its statistics are taken over
\* the whole series.
PanelRaises(weekday_data, r) ==
    ~(r.forecast # None /\ r.trim_idx # None) /\ weekday_data = <<>>

\* "M/D - DayName" column labels, as (month, day, day name), and their "M/D" part.
ColumnLabels(start, weekday, n) ==
    LET md == WeeklyLabels(start, n)
    IN  [k \in 1..n |-> <<md[k][1], md[k][2], weekday>>]

RawDates(weekday_cols) == [k \in 1..Len(weekday_cols) |-> <<weekday_cols[k][1], weekday_cols[k][2]>>]

\* The characters \w matches among those of the item names: letters (with
\* the accented ones of the names), digits and the underscore.
WordChars ==
    {SubSeq(UpperLetters, k, k) : k \in 1..26} \cup
    {SubSeq(LowerLetters, k, k) : k \in 1..26} \cup
    {"0", "1", "2", "3", "4", "5", "6", "7", "8", "9", "_", "ï", "é"}

\* re.sub(r'[^\w\s-]', '', item_name).replace(' ', '_')
RECURSIVE SafeFilename(_)
SafeFilename(item_name) ==
    IF Len(item_name) = 0 THEN ""
    ELSE LET c == SubSeq(item_name, 1, 1)
         IN  (IF c = " " THEN "_"
              ELSE IF c \in WordChars \cup {"-"} THEN c
              ELSE "") \o SafeFilename(SubSeq(item_name, 2, Len(item_name)))

\* The file path of an item's figure.
GridPlotPath(item_name) ==
    "../reports/grid_plots/" \o SafeFilename(item_name) \o "_grid_plot.png"

(***************************************************************************)
(* Inputs of create_grid_plots.  The matrix has up to MaxRows rows; each   *)
(* weekday has NCols weekly columns from the first week of 2024 on, or     *)
(* none.  A row's values for one weekday are read when its panel is drawn: *)
(* at most one sale of 3, then b days without a sale, then one a day.      *)
(***************************************************************************)
GridItems == <<"Berry Tart", "Plain Croissant", "Lemon Tart (Large)", "Baguette">>

\* Two item names that differ by their parentheses only.
ParenthesisItems == <<"Lemon Tart (Large)", "Lemon Tart Large">>

\* The 'Item' columns of the matrices: the first rows of GridItems, or the
\* two rows of ParenthesisItems.
GridFrames ==
    {SubSeq(GridItems, 1, n) : n \in 0..MaxRows} \cup
    (IF Len(ParenthesisItems) <= MaxRows THEN {ParenthesisItems} ELSE {})

GridStart == <<2024, 1, 2>>     \* a Tuesday

RowData(n) ==
    {[k \in 1..n |-> IF k <= a THEN 3 ELSE IF k <= a + b THEN 0 ELSE 1] :
        a \in {0, 1}, b \in 0..n}

InitGrid ==
    /\ QuantityIdle
    /\ values = <<>> /\ dates = <<>> /\ trim_idx = None /\ fit_called = FALSE
    /\ ret = NoneTuple /\ retrim = None /\ fpc = "call"
    /\ df_items \in GridFrames
    /\ \E empty \in SUBSET (1..6) :
         /\ Cardinality(empty) <= MaxEmptyWeekdays
         /\ weekday_columns =
              [w \in {weekdays[k] : k \in 1..6} |->
                 LET k == CHOOSE k \in 1..6 : weekdays[k] = w
                 IN  IF k \in empty THEN <<>>
                     ELSE ColumnLabels(AddDays(GridStart, k - 1), w, NCols)]
    /\ idx = 0 /\ wi = 0
    /\ panel = None
    /\ panels_done = <<>>
    /\ saved = <<>>
    /\ gpc = "loop"

\* One pass of the inner loop: the panel of weekdays[i] for row idx (i is wi).
\* The call of create_prophet_forecast leaves its arguments and its result in
\* dates, values, trim_idx, fit_called and ret.
PlotPanel ==
    /\ gpc = "loop" /\ idx < Len(df_items) /\ wi < 6
    /\ LET weekday == weekdays[wi + 1]
           weekday_cols == weekday_columns[weekday]
           raw_dates == RawDates(weekday_cols)
       IN  \E weekday_data \in RowData(Len(weekday_cols)), outcome \in ProphetOutcomes :
             LET r == ProphetForecast(raw_dates, weekday_data, ForecastPeriods, outcome)
             IN  /\ dates' = raw_dates
                 /\ values' = weekday_data
                 /\ ret' = r.ret
                 /\ trim_idx' = r.trim_idx
                 /\ fit_called' = r.fit_called
                 /\ fpc' = "returned"
                 /\ IF PanelRaises(weekday_data, r.ret)
                    THEN /\ gpc' = "raised"
                         /\ UNCHANGED <<panel, panels_done, wi>>
                    ELSE /\ panel' = Some(DrawPanel(weekday, weekday_data, raw_dates, r.ret))
                         /\ panels_done' = Append(panels_done, <<idx, weekday>>)
                         /\ wi' = wi + 1
                         /\ gpc' = gpc
    /\ UNCHANGED <<df_items, weekday_columns, idx, saved, retrim>>
    /\ UNCHANGED <<qvars, nvars, lvars>>

\* The end of the outer loop's body: the figure is saved and closed.
SaveFigure ==
    /\ gpc = "loop" /\ idx < Len(df_items) /\ wi = 6
    /\ saved' = Append(saved, GridPlotPath(df_items[idx + 1]))
    /\ idx' = idx + 1
    /\ wi' = 0
    /\ UNCHANGED <<df_items, weekday_columns, panel, panels_done, gpc>>
    /\ UNCHANGED <<fvars, qvars, nvars, lvars>>

\* The loop is over and create_grid_plots returns.
ReturnFromGrid ==
    /\ gpc = "loop" /\ idx = Len(df_items)
    /\ gpc' = "done"
    /\ UNCHANGED <<df_items, weekday_columns, idx, wi, panel, panels_done, saved>>
    /\ UNCHANGED <<fvars, qvars, nvars, lvars>>

NextGrid == PlotPanel \/ SaveFigure \/ ReturnFromGrid

SpecGrid == InitGrid /\ [][NextGrid]_vars

(***************************************************************************)
(* quantity_analysis.main on a transaction file.  The file is written row  *)
(* by row before the run; the run loads it and builds the matrix.          *)
(***************************************************************************)
Row(date, item, category, qty) ==
    [Date |-> date, Item |-> item, Category |-> category, Qty |-> qty]

\* Transactions for the aggregation: a Tuesday, a Monday and a missing date;
\* variant, plain, seasonal and missing names; allowed and other categories.
AggRows ==
    {Row(date, item, category, qty) :
        date \in {<<2025, 1, 7>>, <<2025, 1, 13>>, NaT},
        item \in {"Egg Tart", "Crispy Egg Tart", "Plain Croissant",
                  "4th Of July Croissant", "easter special Bun", NaN},
        category \in {"Pastries", "Gift Card"},
        qty \in {1, 2}}

\* Transactions for the pivot: Tuesday 6 and Wednesday 7 August 2024, Tuesday
\* 7 and Monday 13 January 2025, both 14 January 2025 (a Tuesday) and 14 January 2024 (a
\* Sunday), and Tuesday 7 January 2014, whose label is that of 7 January 2025.
PivotRows ==
    {Row(date, item, "Croissant", qty) :
        date \in {<<2024, 8, 6>>, <<2024, 8, 7>>, <<2025, 1, 7>>, <<2025, 1, 13>>,
                  <<2025, 1, 14>>, <<2024, 1, 14>>, <<2014, 1, 7>>},
        item \in {"Plain Croissant", "Baguette"},
        qty \in {1, 2}}

InitQuantity ==
    /\ GridIdle
    /\ NamesIdle
    /\ values = <<>> /\ dates = <<>> /\ trim_idx = None /\ fit_called = FALSE
    /\ ret = NoneTuple /\ retrim = None /\ fpc = "idle"
    /\ csv = EmptyBag
    /\ daily_qty = <<>>
    /\ qty_pivot = [columns |-> <<>>, rows |-> <<>>]
    /\ stats = None /\ summary = None
    /\ qpc = "input"

\* One more transaction in the file.
WriteRow(row, max_rows) ==
    /\ qpc = "input"
    /\ BagCardinality(csv) < max_rows
    /\ csv' = csv (+) SetToBag({row})
    /\ UNCHANGED <<daily_qty, qty_pivot, stats, summary, qpc>>
    /\ UNCHANGED <<fvars, gvars, nvars, lvars>>

\* main: load_transaction_data, create_quantity_pivot, generate_basic_stats
\* on the loaded frame, save_files, then the summary.  An exception of
\* create_quantity_pivot ends the run before the statistics; the 'Period'
\* line, the first of the summary's figures, raises on a NaT (strftime), after
\* the matrix was saved.
QuantityMain ==
    /\ qpc = "input"
    /\ \E r \in {create_quantity_pivot(load_transaction_data(csv))} :
           /\ daily_qty' = r.daily_qty
           /\ qty_pivot' = r.qty_pivot
           /\ stats' = IF r.raised THEN None
                       ELSE Some(generate_basic_stats(load_transaction_data(csv)))
           /\ summary' = IF r.raised THEN None
                         ELSE AnalysisSummary(generate_basic_stats(load_transaction_data(csv)))
           /\ qpc' = IF r.raised THEN "raised" ELSE "done"
    /\ UNCHANGED csv
    /\ UNCHANGED <<fvars, gvars, nvars, lvars>>

WriteAggRow == \E row \in AggRows : WriteRow(row, MaxAggRows)

WritePivotRow == \E row \in PivotRows : WriteRow(row, MaxPivotRows)

NextAgg == WriteAggRow \/ QuantityMain

SpecAgg == InitQuantity /\ [][NextAgg]_vars

NextPivot == WritePivotRow \/ QuantityMain

SpecPivot == InitQuantity /\ [][NextPivot]_vars

(***************************************************************************)
(* clean_item_names on a frame of one transaction, for every name of the   *)
(* table, and for each its lower-case form and itself with a blank added.  *)
(***************************************************************************)
TableNames ==
    UNION {{item_mappings[k][1]} \cup
           {item_mappings[k][2][j] : j \in 1..Len(item_mappings[k][2])} :
           k \in 1..Len(item_mappings)}

NameInputs ==
    TableNames \cup {Lower(name) : name \in TableNames}
               \cup {name \o " " : name \in TableNames}
               \cup {"Plain Croissant", NaN}

InitNames ==
    /\ GridIdle
    /\ LaterIdle
    /\ values = <<>> /\ dates = <<>> /\ trim_idx = None /\ fit_called = FALSE
    /\ ret = NoneTuple /\ retrim = None /\ fpc = "idle"
    /\ csv = EmptyBag
    /\ daily_qty = <<>>
    /\ qty_pivot = [columns |-> <<>>, rows |-> <<>>]
    /\ stats = None /\ summary = None
    /\ qpc = "idle"
    /\ \E name \in NameInputs :
         names_df = SetToBag({WithDayOfWeek(Row(<<2025, 1, 7>>, name, "Pastries", 1))})
    /\ names_cleaned = EmptyBag
    /\ npc = "call"

CleanItemNames ==
    /\ npc = "call"
    /\ names_cleaned' = clean_item_names(names_df)
    /\ npc' = "returned"
    /\ UNCHANGED names_df
    /\ UNCHANGED <<fvars, gvars, qvars, lvars>>

NextNames == CleanItemNames

SpecNames == InitNames /\ [][NextNames]_vars

(***************************************************************************)
(* run_analysis.main.  The quantity stage is the subprocess                *)
(* quantity_analysis.py, whose load_transaction_data converts the Net      *)
(* Sales and Qty fields with astype(float): a field that is no number      *)
(* raises ValueError, nothing catches it and the subprocess exits with 1.  *)
(***************************************************************************)
MaxFileRows == 2

DigitChars == {"0", "1", "2", "3", "4", "5", "6", "7", "8", "9"}

AllDigits(str) ==
    Len(str) > 0 /\ \A k \in 1..Len(str) : SubSeq(str, k, k) \in DigitChars

\* float(str) does not raise, for the texts of the fields below: an optional
\* sign, digits, and optionally a point and digits.
IsFloatText(str) ==
    LET unsigned == IF Len(str) > 0 /\ SubSeq(str, 1, 1) = "-"
                    THEN SubSeq(str, 2, Len(str)) ELSE str
    IN  \/ AllDigits(unsigned)
        \/ \E k \in 2..(Len(unsigned) - 1) :
              /\ SubSeq(unsigned, k, k) = "."
              /\ AllDigits(SubSeq(unsigned, 1, k - 1))
              /\ AllDigits(SubSeq(unsigned, k + 1, Len(unsigned)))

\* .replace(r'[\$,]', '', regex=True)
RECURSIVE StripMoney(_)
StripMoney(str) ==
    IF Len(str) = 0 THEN ""
    ELSE (IF SubSeq(str, 1, 1) \in {"$", ","} THEN "" ELSE SubSeq(str, 1, 1))
         \o StripMoney(SubSeq(str, 2, Len(str)))

\* The load with the Net Sales column left as it is.
LoadRaisesQtyOnly(file) ==
    \E k \in 1..Len(file) : ~IsFloatText(file[k].Qty)

\* load_transaction_data raises: some Net Sales or Qty field is no number.
LoadRaises(file) ==
    \E k \in 1..Len(file) :
        \/ ~IsFloatText(StripMoney(file[k].Net_Sales))
        \/ ~IsFloatText(file[k].Qty)

QuantityScript == "quantity_analysis.py"
VisualizationScript == "visualization_reports.py"

\* result.returncode of the quantity stage: 1 when the load raises, and 0 or
\* 1 (another uncaught error, as a file that cannot be written) otherwise.
QuantityReturnCodes(file) == IF LoadRaises(file) THEN {1} ELSE {0, 1}

QtyFields == {"1", "2.0", "two", "1,000"}
NetSalesFields == {"$3.50", "$1,200.00", "N/A", "$3.5O"}

FileRows == {[Qty |-> q, Net_Sales |-> n] : q \in QtyFields, n \in NetSalesFields}

ForecastIdle ==
    /\ values = <<>> /\ dates = <<>> /\ trim_idx = None /\ fit_called = FALSE
    /\ ret = NoneTuple /\ retrim = None /\ fpc = "idle"

InitRun ==
    /\ SquareIdle
    /\ ForecastIdle
    /\ GridIdle
    /\ csv = EmptyBag /\ daily_qty = <<>>
    /\ qty_pivot = [columns |-> <<>>, rows |-> <<>>] /\ qpc = "idle"
    /\ stats = None /\ summary = None
    /\ names_df = EmptyBag /\ names_cleaned = EmptyBag /\ npc = "idle"
    /\ WebIdle
    /\ run_mode \in {"default", "quantity_only", "viz_only"}
    /\ transaction_file \in UNION {[1..n -> FileRows] : n \in 0..MaxFileRows}
    /\ stage_log = <<>>
    /\ success = TRUE
    /\ run_status = None
    /\ rpc = "main"

\* run_quantity_analysis(), called in the quantity-only and default modes.
RunQuantityAnalysis ==
    /\ rpc = "main" /\ run_mode # "viz_only"
    /\ \E returncode \in QuantityReturnCodes(transaction_file) :
         /\ stage_log' = Append(stage_log, <<QuantityScript, returncode>>)
         /\ success' = (returncode = 0)
         /\ rpc' = IF run_mode = "default" /\ returncode = 0 THEN "viz" ELSE "report"
    /\ UNCHANGED <<run_mode, transaction_file, run_status>>
    /\ UNCHANGED <<fvars, gvars, qvars, nvars, wvars, svars>>

\* run_visualization(), called in the viz-only mode and, in the default mode,
\* after a successful quantity stage.
RunVisualization ==
    /\ \/ rpc = "main" /\ run_mode = "viz_only"
       \/ rpc = "viz"
    /\ \E returncode \in {0, 1} :
         /\ stage_log' = Append(stage_log, <<VisualizationScript, returncode>>)
         /\ success' = (returncode = 0)
    /\ rpc' = "report"
    /\ UNCHANGED <<run_mode, transaction_file, run_status>>
    /\ UNCHANGED <<fvars, gvars, qvars, nvars, wvars, svars>>

\* The report and sys.exit(main()): main returns 1 on failure and None (exit
\* status 0) on success.
MainReturn ==
    /\ rpc = "report"
    /\ run_status' = Some(IF success THEN 0 ELSE 1)
    /\ rpc' = "exited"
    /\ UNCHANGED <<run_mode, transaction_file, stage_log, success>>
    /\ UNCHANGED <<fvars, gvars, qvars, nvars, wvars, svars>>

NextRun == RunQuantityAnalysis \/ RunVisualization \/ MainReturn

SpecRun == InitRun /\ [][NextRun]_vars

(***************************************************************************)
(* The viewer (web/app.py, started by run_web.main) beside the batch that  *)
(* writes the artifacts (create_grid_plots).  The two are separate         *)
(* processes; plt.savefig creates the file and then writes it.             *)
(***************************************************************************)
MaxArtifacts == 2

BatchItems == <<"Berry Tart", "Plain Croissant", "Baguette">>

\* The last component of GridPlotPath(item_name).
ArtifactName(item_name) == SafeFilename(item_name) \o "_grid_plot.png"

\* str.replace(old, new)
RECURSIVE ReplaceAll(_, _, _)
ReplaceAll(str, old, new) ==
    IF Len(str) < Len(old) THEN str
    ELSE IF SubSeq(str, 1, Len(old)) = old
         THEN new \o ReplaceAll(SubSeq(str, Len(old) + 1, Len(str)), old, new)
         ELSE SubSeq(str, 1, 1) \o ReplaceAll(SubSeq(str, 2, Len(str)), old, new)

EndsWith(str, suffix) ==
    Len(str) >= Len(suffix) /\ SubSeq(str, Len(str) - Len(suffix) + 1, Len(str)) = suffix

\* os.path.exists(os.path.join('../reports/grid_plots', filename)): the name
\* is an entry of the directory, a file or a directory, or is '.' or '..'.
PathExists(disk, filename) ==
    disk # None /\ (filename \in DOMAIN disk[1] \/ filename \in {".", ".."})

\* The path is a file that can be sent.
IsFile(disk, filename) ==
    disk # None /\ filename \in DOMAIN disk[1] /\ disk[1][filename] # "dir"

\* glob.glob(os.path.join(plot_dir, '*.png')) with the complete files only.
GlobPngComplete(disk) ==
    IF disk = None THEN {}
    ELSE {name \in DOMAIN disk[1] : EndsWith(name, ".png") /\ disk[1][name] = "complete"}

\* glob.glob(os.path.join(plot_dir, '*.png')), [] when plot_dir does not exist.
GlobPng(disk) ==
    IF disk = None THEN {}
    ELSE {name \in DOMAIN disk[1] : EndsWith(name, ".png")}

\* item_name = filename.replace('_grid_plot.png', '').replace('_', ' ')
PlotItemName(filename) == ReplaceAll(ReplaceAll(filename, "_grid_plot.png", ""), "_", " ")

\* get_available_plots(), as the set of its entries (the sort is by item_name).
get_available_plots(disk) ==
    {[filename |-> name, item_name |-> PlotItemName(name)] : name \in GlobPng(disk)}

NotFound(text) == [status |-> 404, body |-> text]

\* serve_plot(filename): send_file raises on a path that exists and is no
\* file, nothing catches it and the server answers 500.
serve_plot(disk, filename) ==
    IF PathExists(disk, filename)
    THEN IF IsFile(disk, filename)
         THEN [status |-> 200, body |-> <<"image/png", filename, disk[1][filename]>>]
         ELSE [status |-> 500, body |-> "IsADirectoryError"]
    ELSE NotFound("Plot not found")

\* item_detail(item_slug): the first plot that matches, in the order of
\* item_name (with the file names below, at most one plot matches a slug).
item_detail(disk, item_slug) ==
    LET matching == {plot \in get_available_plots(disk) :
                        ReplaceAll(Lower(plot.item_name), " ", "_") = Lower(item_slug)}
    IN  IF matching = {} THEN NotFound("Item not found")
        ELSE [status |-> 200,
              body |-> <<"item_detail.html", CHOOSE plot \in matching : TRUE>>]

\* index() and api_plots()
index(disk) == [status |-> 200, body |-> get_available_plots(disk)]

RequestFilenames ==
    {"Berry_Tart_grid_plot.png", "Plain_Croissant_grid_plot.png", "missing.png", "..", "old"}

RequestSlugs == {"berry_tart", "Plain_Croissant", "baguette", "unknown"}

\* The directory before anything runs: absent, empty, or left by an earlier
\* run with an artifact, possibly beside a directory 'old'.
InitialDirs ==
    {None, Some(<<>>),
     Some([name \in {"Berry_Tart_grid_plot.png"} |-> "complete"]),
     Some([name \in {"Berry_Tart_grid_plot.png", "old"} |->
             IF name = "old" THEN "dir" ELSE "complete"])}

InitWeb ==
    /\ SquareIdle
    /\ ForecastIdle
    /\ GridIdle
    /\ csv = EmptyBag /\ daily_qty = <<>>
    /\ qty_pivot = [columns |-> <<>>, rows |-> <<>>] /\ qpc = "idle"
    /\ stats = None /\ summary = None
    /\ names_df = EmptyBag /\ names_cleaned = EmptyBag /\ npc = "idle"
    /\ RunIdle
    /\ plot_dir \in InitialDirs
    /\ batch_todo = <<>>
    /\ writing = None
    /\ bpc = "idle"
    /\ web_up = FALSE
    /\ request = None
    /\ response = None

\* visualization_reports.main up to the loop of create_grid_plots:
\* ensure_directories, and the rows of the matrix to plot.
StartBatch ==
    /\ bpc = "idle"
    /\ plot_dir' = IF plot_dir = None THEN Some(<<>>) ELSE plot_dir
    /\ \E n \in 0..MaxArtifacts : batch_todo' = SubSeq(BatchItems, 1, n)
    /\ bpc' = "running"
    /\ UNCHANGED <<writing, web_up, request, response>>
    /\ UNCHANGED <<fvars, gvars, qvars, nvars, rvars, svars>>

\* plt.savefig(filepath) opens the file of the next item.
BeginSave ==
    /\ bpc = "running" /\ writing = None /\ batch_todo # <<>>
    /\ LET name == ArtifactName(Head(batch_todo))
       IN  /\ plot_dir' = Some([n \in DOMAIN plot_dir[1] \cup {name} |->
                                  IF n = name THEN "partial" ELSE plot_dir[1][n]])
           /\ writing' = Some(name)
    /\ UNCHANGED <<batch_todo, bpc, web_up, request, response>>
    /\ UNCHANGED <<fvars, gvars, qvars, nvars, rvars, svars>>

\* plt.savefig returns: the file is complete.
FinishSave ==
    /\ bpc = "running" /\ writing # None
    /\ plot_dir' = Some([plot_dir[1] EXCEPT ![writing[1]] = "complete"])
    /\ writing' = None
    /\ batch_todo' = Tail(batch_todo)
    /\ UNCHANGED <<bpc, web_up, request, response>>
    /\ UNCHANGED <<fvars, gvars, qvars, nvars, rvars, svars>>

\* create_grid_plots returns.
FinishBatch ==
    /\ bpc = "running" /\ writing = None /\ batch_todo = <<>>
    /\ bpc' = "done"
    /\ UNCHANGED <<plot_dir, batch_todo, writing, web_up, request, response>>
    /\ UNCHANGED <<fvars, gvars, qvars, nvars, rvars, svars>>

\* run_web.main: check_plots_exist only warns, and the server is started.
StartViewer ==
    /\ ~web_up
    /\ web_up' = TRUE
    /\ UNCHANGED <<plot_dir, batch_todo, writing, bpc, request, response>>
    /\ UNCHANGED <<fvars, gvars, qvars, nvars, rvars, svars>>

\* A request is handled: its route and argument, and the state of the batch
\* and of the directory when it is handled.
Handle(route, arg, answer) ==
    /\ web_up
    /\ request' = Some([route |-> route, arg |-> arg, batch |-> bpc, disk |-> plot_dir])
    /\ response' = Some(answer)
    /\ UNCHANGED <<plot_dir, batch_todo, writing, bpc, web_up>>
    /\ UNCHANGED <<fvars, gvars, qvars, nvars, rvars, svars>>

ServePlot == \E filename \in RequestFilenames :
                Handle("/plot/", filename, serve_plot(plot_dir, filename))

ItemDetail == \E item_slug \in RequestSlugs :
                Handle("/item/", item_slug, item_detail(plot_dir, item_slug))

ListPlots == Handle("/api/plots", "", index(plot_dir))

NextWeb ==
    \/ StartBatch \/ BeginSave \/ FinishSave \/ FinishBatch
    \/ StartViewer \/ ServePlot \/ ItemDetail \/ ListPlots

SpecWeb == InitWeb /\ [][NextWeb]_vars

(***************************************************************************)
(* square_sales_fetcher.py: fetch_sales_data over the pages of the Orders  *)
(* API, and what main does with the result.                                *)
(***************************************************************************)
MaxPages == 2

DigitText == <<"0", "1", "2", "3", "4", "5", "6", "7", "8", "9">>

\* Two digits, as %m and %d write a month and a day.
TwoDigits(n) == DigitText[(n \div 10) + 1] \o DigitText[(n % 10) + 1]

\* order_date.strftime('%m/%d - %A')
DateKey(created_at) ==
    TwoDigits(created_at[2]) \o "/" \o TwoDigits(created_at[3]) \o " - " \o day_name(created_at)

\* str.strip(), for blanks
RECURSIVE StripBlanks(_)
StripBlanks(str) ==
    IF Len(str) = 0 THEN str
    ELSE IF SubSeq(str, 1, 1) = " " THEN StripBlanks(SubSeq(str, 2, Len(str)))
    ELSE IF SubSeq(str, Len(str), Len(str)) = " "
         THEN StripBlanks(SubSeq(str, 1, Len(str) - 1))
    ELSE str

\* The value of a text of digits.
RECURSIVE NatOf(_)
NatOf(str) ==
    IF Len(str) = 0 THEN 0
    ELSE 10 * NatOf(SubSeq(str, 1, Len(str) - 1))
         + (CHOOSE v \in 0..9 : DigitText[v + 1] = SubSeq(str, Len(str), Len(str)))

\* One line item added to sales_data: no name, a quantity that is no number
\* (ValueError) or not positive leave it as it is.
AddLineItem(data, date_key, item) ==
    IF item.name = None \/ item.name = Some("") THEN data
    ELSE LET item_name == StripBlanks(item.name[1])
             quantity_str == IF item.quantity = None THEN "0" ELSE item.quantity[1]
             key == <<item_name, date_key>>
         IN  IF ~AllDigits(quantity_str) THEN data
             ELSE IF NatOf(quantity_str) > 0
                  THEN [k \in DOMAIN data \cup {key} |->
                           (IF k \in DOMAIN data THEN data[k] ELSE 0)
                           + (IF k = key THEN NatOf(quantity_str) ELSE 0)]
                  ELSE data

RECURSIVE AddLineItems(_, _, _)
AddLineItems(data, date_key, line_items) ==
    IF line_items = <<>> THEN data
    ELSE AddLineItems(AddLineItem(data, date_key, Head(line_items)), date_key, Tail(line_items))

\* _process_order(order, sales_data)
ProcessOrder(data, order) ==
    IF order.created_at = None THEN data
    ELSE AddLineItems(data, DateKey(order.created_at[1]), order.line_items)

RECURSIVE ProcessOrders(_, _)
ProcessOrders(data, orders) ==
    IF orders = <<>> THEN data
    ELSE ProcessOrders(ProcessOrder(data, Head(orders)), Tail(orders))

LineItems ==
    {[name |-> Some(n), quantity |-> Some(q)] :
        n \in {"Baguette", "Baguette "}, q \in {"1", "2", "0", "x"}}
    \cup {[name |-> None, quantity |-> Some("1")],
          [name |-> Some("Baguette"), quantity |-> None]}

\* Orders of Thursday 22 and Friday 23 August 2024, and one without created_at.
Orders ==
    {[created_at |-> Some(<<2024, 8, 22>>), line_items |-> <<item>>] : item \in LineItems}
    \cup {[created_at |-> Some(<<2024, 8, 23>>),
           line_items |-> <<[name |-> Some("Baguette"), quantity |-> Some("1")],
                            [name |-> Some("Scone"), quantity |-> Some("2")]>>],
          [created_at |-> None,
           line_items |-> <<[name |-> Some("Baguette"), quantity |-> Some("1")]>>]}

\* A page of the API: no order, one order, or the two orders of the two days.
Pages ==
    {<<>>} \cup {<<order>> : order \in Orders}
    \cup {<<[created_at |-> Some(<<2024, 8, 22>>),
             line_items |-> <<[name |-> Some("Baguette"), quantity |-> Some("2")]>>],
            [created_at |-> Some(<<2024, 8, 23>>),
             line_items |-> <<[name |-> Some("Baguette"), quantity |-> Some("1")],
                              [name |-> Some("Scone"), quantity |-> Some("2")]>>]>>}

InitFetch ==
    /\ ForecastIdle
    /\ GridIdle
    /\ csv = EmptyBag /\ daily_qty = <<>>
    /\ qty_pivot = [columns |-> <<>>, rows |-> <<>>] /\ qpc = "idle"
    /\ stats = None /\ summary = None
    /\ names_df = EmptyBag /\ names_cleaned = EmptyBag /\ npc = "idle"
    /\ RunIdle
    /\ WebIdle
    /\ api_pages \in UNION {[1..n -> Pages] : n \in 1..MaxPages}
    /\ fail_at \in 0..Len(api_pages)
    /\ cursor = None
    /\ page = 1
    /\ sales_data = <<>>
    /\ total_orders = 0
    /\ report = None
    /\ spc = "loop"

\* One pass of the while loop.  The search that raises is caught by the
\* except clause of line 127, after which the function returns sales_data
\* (lines 130-131); a page without cursor ends the loop and the function
\* returns as well.
FetchPage ==
    /\ spc = "loop"
    /\ IF page = fail_at
       THEN /\ spc' = "returned"
            /\ UNCHANGED <<cursor, page, sales_data, total_orders>>
       ELSE LET orders == api_pages[page]
            IN  /\ total_orders' = total_orders + Len(orders)
                /\ sales_data' = ProcessOrders(sales_data, orders)
                /\ IF page < Len(api_pages)
                   THEN /\ cursor' = Some(page + 1)
                        /\ page' = page + 1
                        /\ spc' = spc
                   ELSE /\ cursor' = None
                        /\ spc' = "returned"
                        /\ page' = page
    /\ UNCHANGED <<api_pages, fail_at, report>>
    /\ UNCHANGED <<fvars, gvars, qvars, nvars, rvars, wvars>>

\* main after the fetch: nothing to export, or export_to_csv, print_summary
\* and the report of success.
ExportSales ==
    /\ spc = "returned"
    /\ report' = Some(IF sales_data = <<>> THEN "No sales data found"
                      ELSE "SUCCESS! Sales data exported to CSV")
    /\ spc' = "exported"
    /\ UNCHANGED <<api_pages, fail_at, cursor, page, sales_data, total_orders>>
    /\ UNCHANGED <<fvars, gvars, qvars, nvars, rvars, wvars>>

NextFetch == FetchPage \/ ExportSales

SpecFetch == InitFetch /\ [][NextFetch]_vars

(***************************************************************************)
(* Properties of clean_item_names and create_quantity_pivot.               *)
(***************************************************************************)
Sources(k) == {item_mappings[k][2][j] : j \in 1..Len(item_mappings[k][2])}

\* The canonical name the table gives a raw name: the target of the entry that
\* lists it, and the name itself when no entry does.
Canonical(name) ==
    IF \E k \in 1..Len(item_mappings) : name \in Sources(k)
    THEN item_mappings[CHOOSE k \in 1..Len(item_mappings) : name \in Sources(k)][1]
    ELSE name

\* C10: no name is listed under two targets; clean_item_names gives a listed
\* name its target and every other name itself, so 'Egg Tart' becomes 'Crispy
\* Egg Tart' while 'egg tart' and 'Egg Tart ' stay as they are.
C10_NormalizerIsExactLookup ==
    /\ \A j, k \in 1..Len(item_mappings) : j # k => Sources(j) \cap Sources(k) = {}
    /\ npc = "returned" =>
         /\ BagCardinality(names_cleaned) = BagCardinality(names_df)
         /\ \A row \in DOMAIN names_df :
              /\ WithItem(row, Canonical(row.Item)) \in DOMAIN names_cleaned
              /\ row.Item = "Egg Tart" =>
                   WithItem(row, "Crispy Egg Tart") \in DOMAIN names_cleaned
              /\ row.Item \in {"egg tart", "Egg Tart ", "Plain Croissant", NaN} =>
                   row \in DOMAIN names_cleaned

\* C10 witness: a name that differs from a listed one only by a trailing blank
\* has been through clean_item_names.
C10_Witness ==
    /\ npc = "returned"
    /\ \E row \in DOMAIN names_df :
         /\ row.Item \notin DOMAIN reverse_mapping
         /\ RStrip(row.Item) \in DOMAIN reverse_mapping
         /\ RStrip(row.Item) # Canonical(RStrip(row.Item))

AllowedCategories == {"Croissant", "Bread", "Pastries", "Drink"}

\* A transaction of the file passes the filters: an allowed category, a date
\* that is no Monday, a canonical name without a seasonal substring.
PassesFilters(row) ==
    /\ row.Category \in AllowedCategories
    /\ day_name(row.Date) # "Monday"
    /\ ~ContainsPattern(Lower(Canonical(row.Item)),
                        {"4th of july", "easter special"})

RECURSIVE TotalOf(_, _)
TotalOf(keys, f) ==
    IF keys = {} THEN 0
    ELSE LET k == CHOOSE k \in keys : TRUE IN f[k] + TotalOf(keys \ {k}, f)

\* daily_qty holds, for every (date, canonical name) of the transactions `rows`
\* that pass the filters, the sum of their Qty, and nothing else.
AggregateIsSumOver(rows) ==
    LET passing == {row \in rows : PassesFilters(row)}
        keys == {<<row.Date, Canonical(row.Item)>> : row \in passing}
    IN  /\ DOMAIN daily_qty = keys
        /\ \A key \in keys :
             daily_qty[key] =
               SumQty({row \in passing : <<row.Date, Canonical(row.Item)>> = key}, csv)
        /\ TotalOf(DOMAIN daily_qty, daily_qty) = SumQty(passing, csv)

CellsOf(date) ==
    {j \in 1..Len(qty_pivot.columns) : qty_pivot.columns[j] = FormattedDate(date)}

\* An aggregate combination has exactly one cell, holding the aggregate value.
HasItsCell(key) ==
    /\ key[2] \in DOMAIN qty_pivot.rows
    /\ Cardinality(CellsOf(key[1])) = 1
    /\ \A j \in CellsOf(key[1]) : qty_pivot.rows[key[2]][j] = daily_qty[key]

\* Every cell that is the cell of no aggregate combination is 0.
OtherCellsAreZero ==
    \A item \in DOMAIN qty_pivot.rows : \A j \in 1..Len(qty_pivot.columns) :
        (~\E key \in DOMAIN daily_qty : key[2] = item /\ j \in CellsOf(key[1]))
            => qty_pivot.rows[item][j] = 0

AggregateDates == {key[1] : key \in DOMAIN daily_qty}

\* The labels (month, day, day name) of the matrix columns after 'Item'.
ColumnSet == {qty_pivot.columns[j] : j \in 1..Len(qty_pivot.columns)}

\* Calendar order of two dates (year, month, day).
DateBefore(a, b) ==
    \/ a[1] < b[1]
    \/ a[1] = b[1] /\ a[2] < b[2]
    \/ a[1] = b[1] /\ a[2] = b[2] /\ a[3] < b[3]

WeekdayRank(name) ==
    CHOOSE k \in 0..6 :
        <<"Tuesday", "Wednesday", "Thursday", "Friday", "Saturday", "Sunday", "Monday">>[k + 1] = name

\* Column order: weekday group first, calendar date within the group.
ColumnBefore(a, b) ==
    \/ WeekdayRank(day_name(a)) < WeekdayRank(day_name(b))
    \/ day_name(a) = day_name(b) /\ DateBefore(a, b)

\* The columns are those of the dates `shown`, one each, every date after
\* all the dates that come before it in the column order.
ColumnsInOrderOf(shown) ==
    /\ Len(qty_pivot.columns) = Cardinality(shown)
    /\ \A d \in shown :
         qty_pivot.columns[1 + Cardinality({e \in shown : ColumnBefore(e, d)})] = FormattedDate(d)

NoMondayColumn == \A j \in 1..Len(qty_pivot.columns) : qty_pivot.columns[j][3] # "Monday"

\* The dates of the aggregate whose label is a column of the matrix.
ShownDates == {d \in AggregateDates : FormattedDate(d) \in ColumnSet}

\* C11 as stated: for every transaction set the columns after 'Item' are one
\* per shown date, in the weekday sequence Tuesday..Sunday and in strictly
\* ascending calendar date within a weekday; none is a Monday.
C11_ColumnsByWeekdayThenDate ==
    qpc = "done" => ColumnsInOrderOf(ShownDates) /\ NoMondayColumn

\* C11 for distinct labels: the same when no two shown dates have one label; in every
\* matrix the weekday groups follow the fixed sequence and none is a Monday,
\* but two dates of one month, day and weekday have their columns twice each,
\* so that the dates of that weekday are not strictly ascending.
C11_ColumnsByWeekdayThenDateOfDistinctLabels ==
    qpc = "done" =>
        /\ (\A d, e \in ShownDates : FormattedDate(d) = FormattedDate(e) => d = e)
              => ColumnsInOrderOf(ShownDates)
        /\ \A j, k \in 1..Len(qty_pivot.columns) :
              j < k => WeekdayRank(qty_pivot.columns[j][3]) <= WeekdayRank(qty_pivot.columns[k][3])
        /\ NoMondayColumn

\* C12 as stated: the column of 14 January 2025 is absent from the matrix and
\* the column of every other date of the Daily Aggregate, 14 January of
\* another year included, is present.
C12_OnlyJan14Of2025Removed ==
    qpc = "done" =>
        \A d \in AggregateDates :
            IF d = <<2025, 1, 14>>
            THEN FormattedDate(d) \notin ColumnSet
            ELSE FormattedDate(d) \in ColumnSet

(***************************************************************************)
(* Properties of create_prophet_forecast.                                  *)
(***************************************************************************)
Returned == fpc \in {"returned", "retrimmed"}

\* Python index i follows a run of at least 4 zeros and holds a non-zero value.
FollowsZeroRun(vals, i) ==
    /\ vals[i + 1] # 0
    /\ \E k \in 4..i : \A j \in (i - k)..(i - 1) : vals[j + 1] = 0

LastAfterZeroRun(vals) ==
    LET cands == {i \in 0..(Len(vals) - 1) : FollowsZeroRun(vals, i)}
    IN  IF cands = {} THEN 0 ELSE CHOOSE i \in cands : \A j \in cands : j <= i

\* C3: whenever the scan has run, trim_idx is the largest index holding a
\* non-zero value right after a run of at least 4 zeros, and 0 when there is
\* none (also when such a run only ends the series).
C3_TrimStartIsLastGapEnd ==
    (Returned /\ trim_idx # None) => trim_idx[1] = LastAfterZeroRun(values)

\* C3 witness: the scan ran on a series with two qualifying runs of zeros and
\* took the index after the second one.
C3_Witness ==
    /\ Returned /\ trim_idx # None
    /\ \E i \in 0..(Len(values) - 1) :
         FollowsZeroRun(values, i) /\ i < trim_idx[1]

\* The entries of a series from Python index k on.
Suffix(seq, k) == [j \in 1..(Len(seq) - k) |-> seq[j + k]]

\* The y column of a frame.
YColumn(frame) == [k \in 1..Len(frame) |-> frame[k].y]

\* The entries of a series whose label is a date of the reference year.
RECURSIVE ParsedSuffix(_, _)
ParsedSuffix(ds, vals) ==
    IF vals = <<>> THEN <<>>
    ELSE (IF WithReferenceYear(ParseMonthDay(Head(ds))) = NaT THEN <<>> ELSE <<Head(vals)>>)
         \o ParsedSuffix(Tail(ds), Tail(vals))

\* C4 as stated: every call hands the caller the suffix values[trim-start:] and
\* the trim-start index, [2,5,6] and 11 for the example series.
C4_CallerGetsSuffixAndIndex ==
    Returned =>
        /\ ret.trim_idx = Some(LastAfterZeroRun(values))
        /\ ret.df_prophet # None
        /\ YColumn(ret.df_prophet[1]) = Suffix(values, LastAfterZeroRun(values))
        /\ (values = ExampleSeries =>
               ret.trim_idx = Some(11) /\ YColumn(ret.df_prophet[1]) = <<2, 5, 6>>)

\* C4 amended: the scan computes trim-start and the suffix (11 and [2,5,6] for
\* the example series); the caller is handed them only together with a
\* forecast, the suffix without its entries of unparseable date, and is handed
\* four None otherwise, as for the example series, whose suffix is shorter than
\* 5 observations.
C4_SuffixAndIndexOnlyWithForecast ==
    Returned =>
        /\ (ret.forecast # None =>
               /\ ret.trim_idx = Some(LastAfterZeroRun(values))
               /\ ret.df_prophet # None
               /\ YColumn(ret.df_prophet[1]) =
                    ParsedSuffix(Suffix(dates, ret.trim_idx[1]),
                                 Suffix(values, ret.trim_idx[1])))
        /\ (ret.forecast = None => ret = NoneTuple)
        /\ (values = ExampleSeries =>
               /\ trim_idx = Some(11)
               /\ Suffix(values, trim_idx[1]) = <<2, 5, 6>>
               /\ ret = NoneTuple)

C4_Witness == Returned /\ values = ExampleSeries

\* C5: the scan applied to the series it has trimmed finds no trim: the index is 0.
C5_TrimmerIdempotent == retrim # None => retrim = Some(0)

\* C5 witness: the re-applied scan ran on a series the first scan cut.
C5_Witness == retrim # None /\ trim_idx[1] > 0

\* The entries of the trimmed series whose label parses as a date.
ParsedCount(ds, vals, trim) ==
    Cardinality({k \in (trim + 1)..Len(vals) :
                    ValidDate(1900, ds[k][1], ds[k][2])})

\* C6: model.fit is reached only with at least 10 raw observations of non-zero
\* sum, at least 5 trimmed observations and at least 5 of them with a date that
\* parses; in every other case the call returns four None without fitting.
C6_FitOnlyPastGuards ==
    Returned =>
        LET passes == /\ Len(values) >= 10
                      /\ SumSeq(values) # 0
                      /\ Len(values) - LastAfterZeroRun(values) >= 5
                      /\ ParsedCount(dates, values, LastAfterZeroRun(values)) >= 5
        IN  /\ fit_called <=> passes
            /\ (~passes => ret = NoneTuple)

\* C6 witnesses: a series of 8 non-zero observations returned without a fit, and
\* a series whose trimmed part has 5 observations, one of unparseable date.
C6_Witness ==
    /\ Returned /\ ~fit_called
    /\ Len(values) >= 10 /\ trim_idx # None
    /\ Len(values) - trim_idx[1] >= 5

C6_WitnessShort ==
    Returned /\ Len(values) = 8 /\ (\A k \in 1..8 : values[k] # 0) /\ ret = NoneTuple

(***************************************************************************)
(* Properties of create_grid_plots.                                        *)
(***************************************************************************)
\* How many entries of a sequence equal x.
Occurrences(seq, x) == Cardinality({k \in 1..Len(seq) : seq[k] = x})

\* C7: an unavailable forecast never ends the batch: create_grid_plots is not
\* left by an exception, and when it returns, every (row, weekday) pair has had
\* its panel exactly once and every row has its saved figure.
C7_BatchVisitsEveryUnit ==
    /\ gpc # "raised"
    /\ gpc = "done" =>
         /\ \A row \in 0..(Len(df_items) - 1) : \A k \in 1..6 :
               Occurrences(panels_done, <<row, weekdays[k]>>) = 1
         /\ Len(panels_done) = 6 * Len(df_items)
         /\ saved = [k \in 1..Len(df_items) |-> GridPlotPath(df_items[k])]

\* The panel of the unit whose forecast was asked for last.
PanelOfLastCall == fpc = "returned" /\ gpc # "raised" /\ panel # None

\* C8: a unit whose forecast is unavailable gets a panel with the whole
\* historical series and nothing else, and statistics over the whole series.
C8_UnavailableFallsBack ==
    (fpc = "returned" /\ ret.forecast = None) =>
        /\ PanelOfLastCall
        /\ panel[1].forecast_y = <<>>
        /\ panel[1].forecast_x = <<>>
        /\ ~panel[1].interval
        /\ panel[1].xticklabels = dates
        /\ panel[1].next_forecast = <<>>
        /\ panel[1].avg_qty = Mean(values)
        /\ panel[1].max_qty = Max(values)

\* C9 as stated: the panel shows the whole series, with statistics over the
\* post-trim series whenever the scan found trim-start > 0, else over the whole.
C9_StatsFollowTrim ==
    PanelOfLastCall =>
        /\ panel[1].historical = values
        /\ LET over == IF trim_idx # None /\ trim_idx[1] > 0
                       THEN Suffix(values, trim_idx[1]) ELSE values
           IN  panel[1].avg_qty = Mean(over) /\ panel[1].max_qty = Max(over)

\* C9 amended: the panel shows the whole series, with statistics over the
\* post-trim series when a forecast is available and its trim-start is > 0,
\* and over the whole series otherwise (so also when the scan found a trim and
\* the forecast is unavailable).
C9_StatsFollowTrimOfForecast ==
    PanelOfLastCall =>
        /\ panel[1].historical = values
        /\ LET over == IF ret.forecast # None /\ trim_idx # None /\ trim_idx[1] > 0
                       THEN Suffix(values, trim_idx[1]) ELSE values
           IN  panel[1].avg_qty = Mean(over) /\ panel[1].max_qty = Max(over)

\* C9 witness: a panel with a forecast whose series was trimmed, its statistics
\* differing from those of the whole series.
C9_Witness ==
    /\ PanelOfLastCall
    /\ ret.forecast # None /\ trim_idx[1] > 0
    /\ panel[1].max_qty # Max(values)
    /\ panel[1].avg_qty # Mean(values)

(***************************************************************************)
(* Properties of run_analysis.main.                                        *)
(***************************************************************************)
\* A row with a quantity or currency field that is no number.
MalformedRow(row) == row.Qty \in {"two", "1,000"} \/ row.Net_Sales \in {"N/A", "$3.5O"}

Started(script) == \E k \in 1..Len(stage_log) : stage_log[k][1] = script

C14_OneFilePerRow ==
    gpc = "done" =>
        Cardinality({saved[k] : k \in 1..Len(saved)}) = Len(df_items)

\* C19: when a forecast is available, 'Next' is the estimate of the first of
\* the 4 forecast periods, the one plotted at F+1.
C19_NextIsFirstForecastPeriod ==
    (PanelOfLastCall /\ ret.forecast # None) =>
        /\ Len(panel[1].forecast_y) = 4
        /\ panel[1].xticklabels[Len(values) + 1] = <<"F+", 1>>
        /\ panel[1].next_forecast = <<panel[1].forecast_y[1]>>

(***************************************************************************)
(* Properties of the viewer.                                               *)
(***************************************************************************)
\* The named artifact is on disk in the directory seen by a request.
ArtifactOnDisk(disk, filename) ==
    disk # None /\ filename \in DOMAIN disk[1] /\ disk[1][filename] \in {"complete", "partial"}

\* The png files of the directory seen by a request.
PngOnDisk(disk) ==
    IF disk = None THEN {}
    ELSE {name \in DOMAIN disk[1] :
             Len(name) >= 4 /\ SubSeq(name, Len(name) - 3, Len(name)) = ".png"}

\* C15: serve_plot answers with the image when the named artifact is on disk
\* at request time and with 404 otherwise; item_detail answers 404 when no
\* available plot matches the slug; no request ends in an unhandled error.
C15_MissingArtifactIs404 ==
    request # None =>
        LET req == request[1]
            res == response[1]
        IN  /\ req.route = "/plot/" =>
                 IF ArtifactOnDisk(req.disk, req.arg)
                 THEN res.status = 200 /\ res.body[2] = req.arg
                 ELSE res.status = 404
            /\ (req.route = "/item/" /\
                  \A name \in PngOnDisk(req.disk) :
                     Lower(ReplaceAll(name, "_grid_plot.png", "")) # Lower(req.arg))
                 => res.status = 404
            /\ res.status # 500

\* C16 as stated: the viewer runs, and handles a request, only once the batch
\* has written all its artifacts, so that no request sees a file being written.
C16_ViewerOnlyAfterBatch ==
    /\ web_up => bpc = "done"
    /\ request # None =>
         /\ request[1].batch = "done"
         /\ \A name \in PngOnDisk(request[1].disk) : request[1].disk[1][name] = "complete"

\* C16 amended: nothing orders the viewer after the batch; the batch writes
\* one artifact at a time, and a request handled before or during the batch
\* lists and serves what is on disk when it is handled, a file still being
\* written included.
C16_ViewerSeesDiskAtRequestTime ==
    /\ plot_dir # None =>
         {name \in DOMAIN plot_dir[1] : plot_dir[1][name] = "partial"} =
            (IF writing = None THEN {} ELSE {writing[1]})
    /\ writing # None => bpc = "running"
    /\ request # None =>
         LET req == request[1]
             res == response[1]
         IN  /\ req.route = "/api/plots" =>
                  {plot.filename : plot \in res.body} = PngOnDisk(req.disk)
             /\ (req.route = "/plot/" /\ ArtifactOnDisk(req.disk, req.arg)) =>
                  res.status = 200 /\ res.body[3] = req.disk[1][req.arg]

\* C16 witness: the listing handled while the batch was writing an artifact
\* holds that artifact.
C16_Witness ==
    /\ request # None
    /\ request[1].route = "/api/plots" /\ request[1].batch = "running"
    /\ \E plot \in response[1].body : request[1].disk[1][plot.filename] = "partial"

(***************************************************************************)
(* Further properties of create_prophet_forecast.                          *)
(***************************************************************************)
\* The ds column of a frame.
DsColumn(frame) == [k \in 1..Len(frame) |-> frame[k].ds]

\* C17: the timestamps of the frame handed to the model are strictly
\* increasing in series order (the labels given are those of consecutive
\* weeks, so in ascending calendar order), also across a year boundary.
C17_TimestampsKeepSeriesOrder ==
    (Returned /\ ret.df_prophet # None) =>
        \A j, k \in 1..Len(ret.df_prophet[1]) :
            j < k => DateBefore(DsColumn(ret.df_prophet[1])[j], DsColumn(ret.df_prophet[1])[k])

\* C18: whenever the scan yields trim-start > 0, the trimmed series begins
\* with a non-zero value, the four values before trim-start are zero, and the
\* trimmed series holds no run of 4 or more zeros followed by a non-zero value.
C18_TrimmedSeriesInvariants ==
    (Returned /\ trim_idx # None /\ trim_idx[1] > 0) =>
        LET t == trim_idx[1]
            trimmed == Suffix(values, t)
        IN  /\ t < Len(values)
            /\ trimmed[1] # 0
            /\ t >= 4
            /\ \A j \in (t - 3)..t : values[j] = 0
            /\ ~\E k \in 5..Len(trimmed) :
                  trimmed[k] # 0 /\ \A j \in (k - 4)..(k - 1) : trimmed[j] = 0

\* C18 witness: a series cut after its second run of zeros, the first run
\* being followed by a non-zero value too.
C18_Witness ==
    /\ Returned /\ trim_idx # None /\ trim_idx[1] >= 10
    /\ values[5] # 0
    /\ \A j \in 1..4 : values[j] = 0

(***************************************************************************)
(* Properties of fetch_sales_data.                                         *)
(***************************************************************************)
\* The line items of all the orders of all the pages that have a creation
\* date, a name and a quantity: (page, order, line, name, date, quantity).
AllLineItems ==
    {<<p, o, l>> \in (1..Len(api_pages)) \X (1..2) \X (1..2) :
        /\ o <= Len(api_pages[p])
        /\ l <= Len(api_pages[p][o].line_items)
        /\ api_pages[p][o].created_at # None
        /\ api_pages[p][o].line_items[l].name # None
        /\ api_pages[p][o].line_items[l].quantity \in {Some("1"), Some("2")}}

LineName(e) ==
    IF api_pages[e[1]][e[2]].line_items[e[3]].name[1] = "Baguette " THEN "Baguette"
    ELSE api_pages[e[1]][e[2]].line_items[e[3]].name[1]

LineDate(e) ==
    IF api_pages[e[1]][e[2]].created_at[1] = <<2024, 8, 22>> THEN "08/22 - Thursday"
    ELSE "08/23 - Friday"

LineQuantity(e) ==
    IF api_pages[e[1]][e[2]].line_items[e[3]].quantity = Some("1") THEN 1 ELSE 2

RECURSIVE SumQuantities(_)
SumQuantities(S) ==
    IF S = {} THEN 0
    ELSE LET e == CHOOSE e \in S : TRUE IN LineQuantity(e) + SumQuantities(S \ {e})

\* C20: fetch_sales_data returns, for every (item name, date key), the sum of
\* the strictly positive quantities over all the orders of all the pages, and
\* main reports nothing else as the sales of the range.
C20_FetchReturnsAllPages ==
    spc \in {"returned", "exported"} =>
        /\ DOMAIN sales_data = {<<LineName(e), LineDate(e)>> : e \in AllLineItems}
        /\ \A key \in DOMAIN sales_data :
              sales_data[key] =
                 SumQuantities({e \in AllLineItems : <<LineName(e), LineDate(e)>> = key})

(***************************************************************************)
(* Properties of the summary of quantity_analysis.main.                    *)
(***************************************************************************)
\* The sum of the quantities of the Daily Aggregate.
AggregateTotal == SumOver(DOMAIN daily_qty, daily_qty)

\* C21: the printed 'Items Analyzed' count is the number of rows of the saved
\* matrix, and the printed 'Total Quantity' is the sum of the Daily Aggregate
\* quantities.
C21_SummaryAgreesWithMatrix ==
    (qpc = "done" /\ summary # None) =>
        /\ summary[1].items_analyzed = Cardinality(DOMAIN qty_pivot.rows)
        /\ summary[1].total_quantity = AggregateTotal

====
